---- MODULE Spec2Model ----
(***************************************************************************)
(* A model of the bank-statement parsing engine of parse_bank_statement.py *)
(*                                                                         *)
(* Text is modelled character by character: a line, a memo, a date or a    *)
(* money token is a TLA+ string and every regular expression of the source *)
(* is an operator that scans the string the way the expression does.       *)
(* Amounts are integers counting cents (every money token of the source    *)
(* carries exactly two decimals), dates are (month, day, year) triples     *)
(* that are formatted back to "M/D/YYYY" strings as the source does.       *)
(*                                                                         *)
(* Alphabet: the printable ASCII characters; the only white space is the   *)
(* blank.  The non-ASCII symbols some expressions mention (diamonds,       *)
(* bullets, the division sign) therefore never occur in a line.            *)
(***************************************************************************)
EXTENDS Integers, Sequences, FiniteSets, TLC

VARIABLES
    pc,            \* position of parse_pdf
    file_name,     \* the name of the document, "" when it has none
    year_hint,     \* infer_year_from_filename(file_name); 0 stands for None
    brand,         \* "generic", "amex" or "wells"
    heap,          \* the transaction dicts created so far (Python objects)
    rows,          \* parse_pdf's rows: references (indices) into heap
    page_rows,     \* process_statement_lines' rows of the running scan
    current_tx,    \* reference to the builder of the running scan, 0 for None
    mode,          \* "none", "pattern" or "sm"
    current_year,  \* rolling year of the running scan, 0 for None
    pages_left,    \* pages the extractor has still to deliver
    lines_left,    \* lines the model may still feed (bound of the model)
    fb_lines,      \* fallback lines still to be processed
    fb_runs,       \* how many times extract_fallback_lines was called
    primary_rows,  \* the rows the primary path ended with (history)
    result,        \* the value parse_pdf returns: references into heap
    last,          \* what the last step did (history, for the properties)
    call,          \* a helper function called on its own: its name and arguments
    ret            \* what that call returned

\* the variables of a run of parse_pdf
parse_vars == << pc, file_name, year_hint, brand, heap, rows, page_rows, current_tx,
                 mode, current_year, pages_left, lines_left, fb_lines, fb_runs,
                 primary_rows, result, last >>

vars == << parse_vars, call, ret >>

----------------------------------------------------------------------------
(* Characters and strings                                                  *)

Ch(s, i) == IF i >= 1 /\ i <= Len(s) THEN SubSeq(s, i, i) ELSE ""

\* the slice s[i-1:j] of Python: positions i..j, cut to the string
Sub(s, i, j) ==
    LET a == IF i < 1 THEN 1 ELSE i
        b == IF j > Len(s) THEN Len(s) ELSE j
    IN IF a > b THEN "" ELSE SubSeq(s, a, b)

Digits == {"0", "1", "2", "3", "4", "5", "6", "7", "8", "9"}

\* \w of the re module
WordChars ==
    {Ch("ABCDEFGHIJKLMNOPQRSTUVWXYZabcdefghijklmnopqrstuvwxyz0123456789_", i) : i \in 1..63}

\* \s of the re module, within the model's alphabet
Spaces == {" "}

IsDigitAt(s, i) == Ch(s, i) \in Digits

IsSpaceAt(s, i) == Ch(s, i) \in Spaces

IsWordAt(s, i) == Ch(s, i) \in WordChars

\* \b between positions i-1 and i
WordBoundary(s, i) == IsWordAt(s, i - 1) # IsWordAt(s, i)

From(s, i) == Sub(s, i, Len(s))

UpTo(s, i) == Sub(s, 1, i)

RECURSIVE SkipWhile(_, _, _)
\* first position >= i whose character is not in set
SkipWhile(s, i, set) ==
    IF i <= Len(s) /\ Ch(s, i) \in set THEN SkipWhile(s, i + 1, set) ELSE i

RECURSIVE SkipBack(_, _, _)
\* last position <= i whose character is not in set (0 when there is none)
SkipBack(s, i, set) ==
    IF i >= 1 /\ Ch(s, i) \in set THEN SkipBack(s, i - 1, set) ELSE i

\* str.strip()
Strip(s) ==
    LET b == SkipWhile(s, 1, Spaces)
        e == SkipBack(s, Len(s), Spaces)
    IN IF b > e THEN "" ELSE Sub(s, b, e)

\* the lower-case letter of an upper-case letter, any other character itself
LowerCh(c) ==
    IF \E i \in 1..26 : Ch("ABCDEFGHIJKLMNOPQRSTUVWXYZ", i) = c
    THEN Ch("abcdefghijklmnopqrstuvwxyz",
            CHOOSE i \in 1..26 : Ch("ABCDEFGHIJKLMNOPQRSTUVWXYZ", i) = c)
    ELSE c

RECURSIVE LowerRange(_, _, _)
\* the characters lo..hi of s in lower case (halving keeps the recursion shallow)
LowerRange(s, lo, hi) ==
    IF lo > hi THEN ""
    ELSE IF lo = hi THEN LowerCh(Ch(s, lo))
    ELSE LowerRange(s, lo, (lo + hi) \div 2) \o LowerRange(s, (lo + hi) \div 2 + 1, hi)

\* str.lower()
Lower(s) == LowerRange(s, 1, Len(s))

RECURSIVE Pick(_, _, _, _)
\* the characters of s at the positions of K within lo..hi, in order
Pick(s, lo, hi, K) ==
    IF lo > hi THEN ""
    ELSE IF lo = hi THEN (IF lo \in K THEN Ch(s, lo) ELSE "")
    ELSE Pick(s, lo, (lo + hi) \div 2, K) \o Pick(s, (lo + hi) \div 2 + 1, hi, K)

StartsWith(s, k) == Sub(s, 1, Len(k)) = k

EndsWith(s, k) == Len(k) <= Len(s) /\ Sub(s, Len(s) - Len(k) + 1, Len(s)) = k

OccursAt(s, k, i) == i >= 1 /\ i + Len(k) - 1 <= Len(s) /\ Sub(s, i, i + Len(k) - 1) = k

\* str.find(k) + 1: the first position where k occurs in s, 0 when it does not
Find(s, k) ==
    IF \E i \in 1..Len(s) : OccursAt(s, k, i)
    THEN CHOOSE i \in 1..Len(s) : OccursAt(s, k, i) /\ \A j \in 1..(i - 1) : ~OccursAt(s, k, j)
    ELSE 0

\* k in s
Contains(s, k) == Find(s, k) # 0

\* s with every character of set removed
RemoveChars(s, set) == Pick(s, 1, Len(s), {i \in 1..Len(s) : Ch(s, i) \notin set})

\* s with every character outside set removed
KeepChars(s, set) == Pick(s, 1, Len(s), {i \in 1..Len(s) : Ch(s, i) \in set})

DigitVal(c) == CHOOSE d \in 0..9 : Ch("0123456789", d + 1) = c

RECURSIVE DigitsValue(_, _)
\* int(s) of a string of digits, acc the value read so far ("" reads as acc)
DigitsValue(s, acc) ==
    IF Len(s) = 0 THEN acc ELSE DigitsValue(Tail(s), 10 * acc + DigitVal(Ch(s, 1)))

AllDigits(s) == \A i \in 1..Len(s) : IsDigitAt(s, i)

RECURSIVE ToStr(_)
\* str(n) of a natural number
ToStr(n) ==
    IF n < 10 THEN Ch("0123456789", n + 1)
    ELSE ToStr(n \div 10) \o Ch("0123456789", (n % 10) + 1)

\* the least element of a non-empty set of integers
Min(S) == CHOOSE x \in S : \A y \in S : x <= y

\* the least element of a set of positions, 0 when it is empty
MinOrZero(S) == IF S = {} THEN 0 ELSE Min(S)

\* abs(x)
Abs(x) == IF x < 0 THEN 0 - x ELSE x

\* the text of a span [start, end] of s
SpanText(s, g) == Sub(s, g.start, g.end)

----------------------------------------------------------------------------
(* Money tokens                                                            *)

\* MONEY_INLINE tried at position i: -?\$?\s?\d[\d,]*\.\d{2}
\* the position of the last character of the match, 0 when there is none
MoneyEndAt(s, i) ==
    LET p1 == IF Ch(s, i) = "-" THEN i + 1 ELSE i
        p2 == IF Ch(s, p1) = "$" THEN p1 + 1 ELSE p1
        p3 == IF IsSpaceAt(s, p2) THEN p2 + 1 ELSE p2
        p4 == SkipWhile(s, p3 + 1, Digits \cup {","})
    IN IF IsDigitAt(s, p3) /\ Ch(s, p4) = "." /\ IsDigitAt(s, p4 + 1) /\ IsDigitAt(s, p4 + 2)
       THEN p4 + 2
       ELSE 0

\* the match of MONEY_INLINE that starts at position i, None for i = 0
MoneySpanAt(s, i) == IF i = 0 THEN [start |-> 0, end |-> 0] ELSE [start |-> i, end |-> MoneyEndAt(s, i)]

\* MONEY_INLINE.search(s): [start, end] of the leftmost match, start = 0 for None
MONEY_INLINE(s) == MoneySpanAt(s, MinOrZero({i \in 1..Len(s) : MoneyEndAt(s, i) # 0}))

RECURSIVE MoneySubFrom(_, _)
\* MONEY_INLINE.sub('', s), m the leftmost match in s: every match removed
MoneySubFrom(s, m) ==
    IF m.start = 0 THEN s
    ELSE UpTo(s, m.start - 1)
           \o MoneySubFrom(From(s, m.end + 1), MONEY_INLINE(From(s, m.end + 1)))

\* MONEY_INLINE.sub('', s)
MoneySubAll(s) == MoneySubFrom(s, MONEY_INLINE(s))

\* AMOUNT_ONLY.match(s): ^\s*<money>(?:\s*[diamond])?\s*$
AMOUNT_ONLY(s) ==
    LET b == SkipWhile(s, 1, Spaces)
        e == MoneyEndAt(s, b)
    IN /\ e # 0
       /\ SkipWhile(s, e + 1, Spaces) > Len(s)

\* AMOUNT_WITH_BALANCE.match(s): ^\s*(<money>)\s+[\d,]*\.\d{2}\s*$
\* [start, end] of group 1, start = 0 for None
AMOUNT_WITH_BALANCE(s) ==
    LET b == SkipWhile(s, 1, Spaces)
        e == MoneyEndAt(s, b)
        q == SkipWhile(s, e + 1, Spaces)
        d == SkipWhile(s, q, Digits \cup {","})
    IN IF /\ e # 0
          /\ q > e + 1
          /\ Ch(s, d) = "." /\ IsDigitAt(s, d + 1) /\ IsDigitAt(s, d + 2)
          /\ SkipWhile(s, d + 3, Spaces) > Len(s)
       THEN [start |-> b, end |-> e]
       ELSE [start |-> 0, end |-> 0]

\* MONEY_STRIPPER.sub("", s): only digits, "." and "-" stay
MONEY_STRIPPER(s) == KeepChars(s, Digits \cup {".", "-"})

\* float(s) of a money string without decoration, in cents: every money token has
\* exactly two decimals, so its digits read as one number are the amount in cents
FloatCents(s) ==
    IF StartsWith(s, "-") THEN 0 - DigitsValue(KeepChars(s, Digits), 0)
    ELSE DigitsValue(KeepChars(s, Digits), 0)

\* the amount clean_amount_str computes from its money token: the stripped token
\* keeps its minus, and the result is negated once more when the token holds one
TokenCents(token) ==
    IF Contains(token, "-") THEN 0 - FloatCents(MONEY_STRIPPER(token))
    ELSE FloatCents(MONEY_STRIPPER(token))

\* clean_amount_str(s), for an s that holds a money token
clean_amount_str(s) == TokenCents(SpanText(s, MONEY_INLINE(s)))

\* round(amount, 2): an amount is a whole number of cents (two decimals), which
\* rounding to two decimals leaves as it is
Round2(cents) == cents

----------------------------------------------------------------------------
(* Dates                                                                   *)

\* datetime.today().year, read when neither the file name nor the page gives a year
TodayYear == 2026

\* the days of month m of year y
DaysInMonth(y, m) ==
    IF m = 2 THEN (IF (y % 4 = 0 /\ y % 100 # 0) \/ y % 400 = 0 THEN 29 ELSE 28)
    ELSE IF m \in {4, 6, 9, 11} THEN 30 ELSE 31

NoDate == [ok |-> FALSE, month |-> 0, day |-> 0, year |-> 0]

RECURSIVE Split(_, _)
\* s.split(sep) for a one-character separator
Split(s, sep) ==
    LET i == Find(s, sep)
    IN IF i = 0 THEN << s >> ELSE << UpTo(s, i - 1) >> \o Split(From(s, i + 1), sep)

\* datetime(y, m, d), ok = FALSE standing for the ValueError it raises unless
\* 1 <= y <= 9999, 1 <= m <= 12 and d is a day of the month
MakeDate(y, m, d) ==
    IF y >= 1 /\ y <= 9999 /\ m >= 1 /\ m <= 12 /\ d >= 1 /\ d <= DaysInMonth(y, m)
    THEN [ok |-> TRUE, month |-> m, day |-> d, year |-> y]
    ELSE NoDate

\* strptime on the fields f between the slashes: one or two digits of month and
\* day; %Y reads four digits, %y two, 00-68 as 20yy and 69-99 as 19yy
StrpFields(f, ylen) ==
    IF /\ Len(f) = 3
       /\ Len(f[1]) \in {1, 2} /\ AllDigits(f[1])
       /\ Len(f[2]) \in {1, 2} /\ AllDigits(f[2])
       /\ Len(f[3]) = ylen /\ AllDigits(f[3])
    THEN MakeDate(IF ylen = 4 THEN DigitsValue(f[3], 0)
                  ELSE IF DigitsValue(f[3], 0) <= 68 THEN 2000 + DigitsValue(f[3], 0)
                  ELSE 1900 + DigitsValue(f[3], 0),
                  DigitsValue(f[1], 0), DigitsValue(f[2], 0))
    ELSE NoDate

\* datetime.strptime(s, "%m/%d/%y") for ylen = 2, "%m/%d/%Y" for ylen = 4;
\* ok = FALSE stands for the ValueError
strptime(s, ylen) == StrpFields(Split(s, "/"), ylen)

\* the first of four attempts that gives a date, the last one otherwise
FirstDate(a, b, c, d) == IF a.ok THEN a ELSE IF b.ok THEN b ELSE IF c.ok THEN c ELSE d

\* the attempts of normalize_date on the stripped string s with the year h
NormalizeWith(s, sh) == FirstDate(strptime(s, 4), strptime(s, 2), strptime(sh, 4), strptime(sh, 2))

\* normalize_date(ds, year_hint); year_hint = 0 stands for None
normalize_date(ds, hint) ==
    NormalizeWith(Strip(ds), Strip(ds) \o "/" \o ToStr(IF hint = 0 THEN TodayYear ELSE hint))

MonthAbbrevs ==
    << "Jan", "Feb", "Mar", "Apr", "May", "Jun", "Jul", "Aug", "Sep", "Oct", "Nov", "Dec" >>

\* month_map.get(month_abbrev), 0 for None
MonthNumber(month_abbrev) ==
    IF \E i \in 1..12 : MonthAbbrevs[i] = month_abbrev
    THEN CHOOSE i \in 1..12 : MonthAbbrevs[i] = month_abbrev
    ELSE 0

\* parse_abbreviated_month_date(month_abbrev, day, year_hint)
parse_abbreviated_month_date(month_abbrev, day, hint) ==
    MakeDate(IF hint = 0 THEN TodayYear ELSE hint, MonthNumber(month_abbrev), DigitsValue(day, 0))

\* f"{date_dt.month}/{date_dt.day}/{date_dt.year}"
FormatDate(dt) == ToStr(dt.month) \o "/" \o ToStr(dt.day) \o "/" \o ToStr(dt.year)

\* str(year)[-2:]
LastTwo(year) == From(ToStr(year), Len(ToStr(year)) - 1)

----------------------------------------------------------------------------
(* infer_year_from_filename                                                *)

\* re.search(r"(20\d{2})", name): position of the leftmost match, 0 for None
FindYear20(name) ==
    MinOrZero({i \in 1..Len(name) :
                 OccursAt(name, "20", i) /\ IsDigitAt(name, i + 2) /\ IsDigitAt(name, i + 3)})

\* re.search(r"(\d{6})", name): position of the leftmost match, 0 for None
FindSixDigits(name) ==
    MinOrZero({i \in 1..Len(name) : \A j \in 0..5 : IsDigitAt(name, i + j)})

\* the year read at the matches y20 of (20\d{2}) and d6 of (\d{6})
YearFromMatches(name, y20, d6) ==
    IF y20 # 0 THEN DigitsValue(Sub(name, y20, y20 + 3), 0)
    ELSE IF d6 # 0 THEN 2000 + DigitsValue(Sub(name, d6 + 4, d6 + 5), 0)
    ELSE 0

\* infer_year_from_filename(path_or_name); 0 stands for None
infer_year_from_filename(name) ==
    IF name = "" THEN 0 ELSE YearFromMatches(name, FindYear20(name), FindSixDigits(name))

----------------------------------------------------------------------------
(* Sign Resolver                                                           *)

NEGATIVE_HINTS ==
    {"purchase authorized", "withdrawal", "ach debit", "zelle to",
     "payment", "check", "debit", "card", "b2p"}

POSITIVE_HINTS ==
    {"le - usa technol", "usa technol",
     "deposit", "edeposit", "atm cash deposit", "credit", "refund", "zelle from"}

\* a faulty variant of GuessSignLower that consults the keywords before the
\* explicit minus
GuessSignKeywordsFirst(d, amount_has_minus, b) ==
    IF b = "amex" /\ amount_has_minus /\ (Contains(d, "credit") \/ Contains(d, "refund"))
    THEN 1
    ELSE IF \E k \in NEGATIVE_HINTS : Contains(d, k) THEN -1
    ELSE IF \E k \in POSITIVE_HINTS : Contains(d, k) THEN 1
    ELSE IF amount_has_minus THEN -1
    ELSE IF b = "wells" THEN 1 ELSE -1

\* guess_sign on the lower-cased description d
GuessSignLower(d, amount_has_minus, b) ==
    IF b = "amex" /\ amount_has_minus /\ (Contains(d, "credit") \/ Contains(d, "refund"))
    THEN 1
    ELSE IF amount_has_minus THEN -1
    ELSE IF \E k \in NEGATIVE_HINTS : Contains(d, k) THEN -1
    ELSE IF \E k \in POSITIVE_HINTS : Contains(d, k) THEN 1
    ELSE IF b = "wells" THEN 1 ELSE -1

\* guess_sign(desc, amount_has_minus, brand)
guess_sign(desc, amount_has_minus, b) == GuessSignLower(Lower(desc), amount_has_minus, b)

----------------------------------------------------------------------------
(* Line patterns                                                           *)

TwoDigitsAt(s, i) == IsDigitAt(s, i) /\ IsDigitAt(s, i + 1)

\* the amount group of pattern matched from position a to the end of the line:
\* (-?\$?\s?\d[\d,]*\.\d{2}-?)$
AmountToEnd(s, a) ==
    LET e == MoneyEndAt(s, a)
    IN e # 0 /\ (e = Len(s) \/ (e + 1 = Len(s) /\ Ch(s, e + 1) = "-"))

NoPattern == [ok |-> FALSE, date_full |-> "", date_short |-> "", desc |-> "", amt_str |-> ""]

\* pattern.search(line):
\* ^(?:(\d{2}/\d{2}/\d{2})|(\d{2}/\d{2}))\*?\s+(.*?)\s+(-?\$?\s?\d[\d,]*\.\d{2}-?)$
\* The description is lazy: it ends before the first run of blanks that is followed
\* by an amount reaching the end of the line; it is empty only when the blanks after
\* the date are at least two and the amount follows them directly.
pattern(s) ==
    LET short == TwoDigitsAt(s, 1) /\ Ch(s, 3) = "/" /\ TwoDigitsAt(s, 4)
        full  == short /\ Ch(s, 6) = "/" /\ TwoDigitsAt(s, 7)
        q0    == IF full THEN 9 ELSE 6
        q     == IF Ch(s, q0) = "*" THEN q0 + 1 ELSE q0
        ds    == SkipWhile(s, q, Spaces)
        A     == {a \in (ds + 1)..Len(s) :
                     IsSpaceAt(s, a - 1) /\ ~IsSpaceAt(s, a) /\ AmountToEnd(s, a)}
        a1    == Min(A)
    IN IF ~short \/ ds = q THEN NoPattern
       ELSE IF A # {}
       THEN [ok |-> TRUE,
             date_full  |-> IF full THEN UpTo(s, 8) ELSE "",
             date_short |-> IF full THEN "" ELSE UpTo(s, 5),
             desc       |-> Sub(s, ds, SkipBack(s, a1 - 1, Spaces)),
             amt_str    |-> From(s, a1)]
       ELSE IF ds >= q + 2 /\ AmountToEnd(s, ds)
       THEN [ok |-> TRUE,
             date_full  |-> IF full THEN UpTo(s, 8) ELSE "",
             date_short |-> IF full THEN "" ELSE UpTo(s, 5),
             desc       |-> "",
             amt_str    |-> From(s, ds)]
       ELSE NoPattern

\* one way of reading DATE_START's date: mlen and dlen digits of month and day,
\* ylen digits of year (0: no year), star = 1 when the asterisk is consumed
DateStartFits(s, mlen, dlen, ylen, star) ==
    LET d0 == mlen + 2
        y0 == d0 + dlen
        p  == IF ylen = 0 THEN y0 ELSE y0 + 1 + ylen
    IN /\ \A i \in 1..mlen : IsDigitAt(s, i)
       /\ Ch(s, mlen + 1) = "/"
       /\ \A i \in d0..(d0 + dlen - 1) : IsDigitAt(s, i)
       /\ ylen # 0 => (Ch(s, y0) = "/" /\ \A i \in (y0 + 1)..(y0 + ylen) : IsDigitAt(s, i))
       /\ star = 1 => Ch(s, p) = "*"
       /\ WordBoundary(s, p + star)

\* the order in which the greedy quantifiers of DATE_START try the readings
DateStartRank(mlen, dlen, ylen, star) ==
    (2 - mlen) * 16 + (2 - dlen) * 8
      + (CASE ylen = 4 -> 0 [] ylen = 3 -> 1 [] ylen = 2 -> 2 [] OTHER -> 3) * 2
      + (1 - star)

\* DATE_START.match(line): ^(\d{1,2}/\d{1,2}(?:/\d{2,4})?)\*?\b(.*)$
DATE_START(s) ==
    LET C == {c \in {1, 2} \X {1, 2} \X {0, 2, 3, 4} \X {0, 1} :
                 DateStartFits(s, c[1], c[2], c[3], c[4])}
        c == CHOOSE x \in C : \A y \in C :
                 DateStartRank(x[1], x[2], x[3], x[4]) <= DateStartRank(y[1], y[2], y[3], y[4])
        p == c[1] + 1 + c[2] + (IF c[3] = 0 THEN 0 ELSE 1 + c[3])
    IN IF C = {} THEN [ok |-> FALSE, date_raw |-> "", rest |-> ""]
       ELSE [ok |-> TRUE, date_raw |-> UpTo(s, p), rest |-> From(s, p + 1 + c[4])]

\* ABBREV_MONTH_DATE.match(line): ^(Jan|...|Dec)(\d{2})\b(.*)$
ABBREV_MONTH_DATE(s) ==
    IF /\ \E i \in 1..12 : MonthAbbrevs[i] = UpTo(s, 3)
       /\ Len(s) >= 5
       /\ TwoDigitsAt(s, 4)
       /\ WordBoundary(s, 6)
    THEN [ok |-> TRUE, month_abbrev |-> UpTo(s, 3), day |-> Sub(s, 4, 5), rest |-> From(s, 6)]
    ELSE [ok |-> FALSE, month_abbrev |-> "", day |-> "", rest |-> ""]

\* the alternatives of MEMO_CLEAN_RE that are plain words
MemoCleanWords == {"summary", "detail", "closing", "account", "page"}

\* new\s+charges? matched at position i of a lower-cased string
NewChargesAt(l, i) ==
    /\ OccursAt(l, "new", i)
    /\ IsSpaceAt(l, i + 3)
    /\ OccursAt(l, "charge", SkipWhile(l, i + 3, Spaces))

\* search of an alternation of words and new\s+charges? in the lower-cased l:
\* the position where the leftmost match starts, 0 for None
KeywordStartLower(l, words) ==
    MinOrZero({i \in 1..Len(l) : NewChargesAt(l, i) \/ \E w \in words : OccursAt(l, w, i)})

\* HEADER_RE.search(s).start() + 1, 0 for None (payments? starts where payment
\* does)
HEADER_RE(s) ==
    KeywordStartLower(Lower(s),
        {"detail", "summary", "payment", "closing", "account", "page",
         "transactions", "activity date", "postdate", "reference", "totals"})

\* MEMO_CLEAN_RE.search(s).start() + 1, 0 for None
MEMO_CLEAN_RE(s) == KeywordStartLower(Lower(s), MemoCleanWords)

\* the position where the last match of the alternation starts in the lower-cased
\* l, 0 for None
KeywordLastLower(l, words) ==
    LET hits == {i \in 1..Len(l) : NewChargesAt(l, i) \/ \E w \in words : OccursAt(l, w, i)}
    IN IF hits = {} THEN 0 ELSE CHOOSE i \in hits : \A j \in hits : j <= i

\* s cut before position at and stripped, s itself for at = 0
CutBefore(s, at) == IF at # 0 THEN Strip(UpTo(s, at - 1)) ELSE s

\* a faulty variant of MemoClean that cuts the memo at the last noise keyword
\* instead of the first
MemoCleanAtLast(s) == CutBefore(s, KeywordLastLower(Lower(s), MemoCleanWords))

\* the memo clean-up: MEMO_CLEAN_RE.split(s)[0].strip() when the expression matches
MemoClean(s) == CutBefore(s, MEMO_CLEAN_RE(s))

\* re.search(r'\btotals\b', line, re.I); str.lower keeps the length of the line
\* and which of its characters are word characters
TotalsWord(s) ==
    \E i \in 1..Len(s) :
       OccursAt(Lower(s), "totals", i) /\ ~IsWordAt(s, i - 1) /\ ~IsWordAt(s, i + 6)

\* ^\d+\s+\d{1,2}/\d, with a and b the ends of the leading digits and blanks
SkipDateRow(s, a, b) ==
    /\ a > 1 /\ b > a /\ IsDigitAt(s, b)
    /\ \/ Ch(s, b + 1) = "/" /\ IsDigitAt(s, b + 2)
       \/ IsDigitAt(s, b + 1) /\ Ch(s, b + 2) = "/" /\ IsDigitAt(s, b + 3)

\* the tests of should_skip_wellsfargo_continuation_line on the stripped line s
\* and its lower case l
SkipStripped(s, l) ==
    \/ SkipDateRow(s, SkipWhile(s, 1, Digits), SkipWhile(s, SkipWhile(s, 1, Digits), Spaces))
    \/ \E w \in {"number", "date", "amount", "units", "service", "description", "fee"} :
          StartsWith(l, w)
    \/ \E n \in 1..3 : n < SkipWhile(s, 1, {"-"}) /\ IsSpaceAt(s, n + 1)
    \/ \E w \in {"fee period", "service charge", "wellsfargo.com", "for a link to"} :
          Contains(l, w)
    \/ s \in {"", "C1/C1"}
    \/ Len(s) > 0 /\ \A i \in 1..Len(s) : Ch(s, i) \in Digits \cup {"$", ".", ",", " "}

\* should_skip_wellsfargo_continuation_line(line)
should_skip_wellsfargo_continuation_line(line) == SkipStripped(Strip(line), Lower(Strip(line)))

\* the first of the matches tried in turn: the whole line for AMOUNT_ONLY (its
\* group 0), group 1 of AMOUNT_WITH_BALANCE, the match of MONEY_INLINE
FirstAmountSpan(line, only, wb, mi) ==
    IF only THEN [start |-> 1, end |-> Len(line)]
    ELSE IF wb.start # 0 THEN wb
    ELSE mi

\* amount and leftover from the cleaned token raw and the stripped leftover
AmountFromToken(raw, leftover, memo_so_far, b) ==
    [has      |-> TRUE,
     amount   |-> Abs(raw) * guess_sign(Strip(memo_so_far \o " " \o leftover), raw < 0, b),
     leftover |-> MemoClean(Strip(MoneySubAll(leftover)))]

\* parse_amount_from_line once the match g is known
AmountFromSpan(line, g, memo_so_far, b) ==
    IF g.start = 0
    THEN [has |-> FALSE, amount |-> 0, leftover |-> Strip(line)]
    ELSE AmountFromToken(clean_amount_str(SpanText(line, g)), Strip(UpTo(line, g.start - 1) \o From(line, g.end + 1)),
                         memo_so_far, b)

\* parse_amount_from_line(line, memo_so_far, brand): has = FALSE stands for the
\* amount None
parse_amount_from_line(line, memo_so_far, b) ==
    AmountFromSpan(line,
                   FirstAmountSpan(line, AMOUNT_ONLY(line), AMOUNT_WITH_BALANCE(line),
                                   MONEY_INLINE(line)),
                   memo_so_far, b)

----------------------------------------------------------------------------
(* Line Classification State Machine: one iteration of the loop of         *)
(* process_statement_lines.  The scan state st holds the locals of the     *)
(* function: heap (the dicts it created; rows and current_tx refer to      *)
(* them, so a dict changed through current_tx changes in rows too),        *)
(* page_rows, current_tx, mode, current_year, and raised for a ValueError  *)
(* leaving the function.                                                   *)

Tx(date, memo, amount, has) == [Date |-> date, Memo |-> memo, Amount |-> amount, HasAmount |-> has]

\* a faulty variant of Commits that forgets the amount test: any pending builder
\* is committed
CommitsAny(st) == st.current_tx # 0

\* current_tx and (mode == "pattern" or (mode == "sm" and current_tx.get("Amount") is not None))
Commits(st) ==
    /\ st.current_tx # 0
    /\ \/ st.mode = "pattern"
       \/ st.mode = "sm" /\ st.heap[st.current_tx].HasAmount

\* the commit every date-bearing line and the end of the page start with
CommitPending(st) ==
    IF Commits(st) THEN [st EXCEPT !.page_rows = Append(@, st.current_tx)] ELSE st

\* rows.append(current_tx); current_tx = None; mode = None
CloseTx(st) ==
    [st EXCEPT !.page_rows = Append(@, st.current_tx), !.current_tx = 0, !.mode = "none"]

\* current_tx = {...}: a new dict, referred to by current_tx
NewTx(st, tx) == [st EXCEPT !.heap = Append(@, tx), !.current_tx = Len(st.heap) + 1]

Raise(st) == [st EXCEPT !.raised = TRUE]

\* rows[current_tx] = tx: the dict current_tx refers to takes the fields of tx
SetCurrent(st, tx) == [st EXCEPT !.heap[st.current_tx] = tx]

\* current_tx["Memo"] = memo
SetMemo(st, memo) == [st EXCEPT !.heap[st.current_tx].Memo = memo]

\* (memo + " " + extra).strip()
JoinMemo(memo, extra) == Strip(memo \o " " \o extra)

\* s[:at - 1], s itself for at = 0
CutAt(s, at) == IF at # 0 THEN UpTo(s, at - 1) ELSE s

\* the description and the amount string of the pattern path: for Wells Fargo a
\* money token dm inside the description is the amount, the last column the balance
PatternGroups(m, dm, b) ==
    IF b = "wells" /\ dm.start # 0
    THEN [desc |-> Strip(UpTo(m.desc, dm.start - 1)), amt_str |-> SpanText(m.desc, dm),
          wells_fargo_tx_amount |-> TRUE]
    ELSE [desc |-> m.desc, amt_str |-> m.amt_str, wells_fargo_tx_amount |-> FALSE]

\* the sign of the pattern path on the stripped amount string a: the explicit
\* minus, guess_sign only for a Wells Fargo amount taken from the description
PatternSignStripped(a, desc, wells_fargo_tx_amount, b) ==
    IF StartsWith(a, "-") \/ EndsWith(a, "-") THEN -1
    ELSE IF wells_fargo_tx_amount THEN guess_sign(desc, FALSE, b)
    ELSE 1

\* the amount of the pattern path
PatternAmount(g, b) ==
    FloatCents(Strip(RemoveChars(g.amt_str, {"$", ",", "+", "-"})))
      * PatternSignStripped(Strip(g.amt_str), g.desc, g.wells_fargo_tx_amount, b)

\* current_year as the pattern path reads it for a date without year
PatternYear(st, hint) ==
    IF st.current_year # 0 THEN st.current_year ELSE IF hint # 0 THEN hint ELSE TodayYear

\* the date of the pattern path
PatternDate(m, cy) ==
    IF m.date_full # "" THEN strptime(m.date_full, 2)
    ELSE strptime(m.date_short \o "/" \o LastTwo(cy), 2)

\* the pattern path once its date dt and its groups g are known
PatternCommit(s1, m, dt, cy, g, b) ==
    IF ~dt.ok THEN Raise(s1)
    ELSE [NewTx(s1, Tx(FormatDate(dt), Strip(g.desc), PatternAmount(g, b), TRUE)) EXCEPT
             !.mode = "pattern",
             !.current_year = IF m.date_full # "" THEN dt.year ELSE cy]

\* a line that pattern matches (m its groups)
PatternLine(st, m, b, hint) ==
    PatternCommit(CommitPending(st), m, PatternDate(m, PatternYear(st, hint)),
                  PatternYear(st, hint), PatternGroups(m, MONEY_INLINE(m.desc), b), b)

\* the amount found on a date line or an abbreviated-month line:
\* float of the stripped token without its minus, times the guessed sign
InlineAmount(amt_raw, memo, b) ==
    FloatCents(RemoveChars(MONEY_STRIPPER(amt_raw), {"-"}))
      * (IF guess_sign(memo, Contains(amt_raw, "-"), b) < 0 THEN -1 ELSE 1)

\* the transaction of a line whose money token is amt_raw and whose memo is memo
InlineTxOf(date, amt_raw, memo, b) == Tx(date, memo, InlineAmount(amt_raw, memo, b), TRUE)

\* the transaction of a line desc_part with the money match mm
InlineTx(date, desc_part, mm, b) ==
    InlineTxOf(date, SpanText(desc_part, mm), Strip(UpTo(desc_part, mm.start - 1)), b)

\* the builder cur completed by what parse_amount_from_line found on the date line
ParsedTx(cur, pa) == Tx(cur.Date, IF pa.leftover # "" THEN pa.leftover ELSE cur.Memo, pa.amount, TRUE)

\* current_tx = {"Date": ..., "Memo": rest, "Amount": None}; mode = "sm"
DateOpen(s1, dt, rest) ==
    [NewTx(s1, Tx(FormatDate(dt), rest, 0, FALSE)) EXCEPT !.mode = "sm", !.current_year = dt.year]

\* the builder of a date line with its amount: mm the money match in rest, pa
\* what parse_amount_from_line finds when there is none
DateFilled(s2, rest, mm, pa, b) ==
    SetCurrent(s2, IF mm.start # 0
                   THEN InlineTx(s2.heap[s2.current_tx].Date, rest, mm, b)
                   ELSE ParsedTx(s2.heap[s2.current_tx], pa))

\* the amount of a date line; for Wells Fargo the transaction stays open to
\* capture continuation lines
DateAmount(s2, rest, mm, pa, b) ==
    IF rest = "" \/ (mm.start = 0 /\ ~pa.has) THEN s2
    ELSE IF b = "wells" THEN DateFilled(s2, rest, mm, pa, b)
    ELSE CloseTx(DateFilled(s2, rest, mm, pa, b))

\* the date-start path once its date dt and its description rest are known
DateCommit(s1, dt, rest, b) ==
    IF ~dt.ok THEN Raise(s1)
    ELSE DateAmount(DateOpen(s1, dt, rest), rest, MONEY_INLINE(rest),
                    parse_amount_from_line(rest, rest, b), b)

\* a line that DATE_START matches (m its groups)
DateStartLine(st, m, b, hint) ==
    DateCommit(CommitPending(st),
               normalize_date(m.date_raw, IF st.current_year # 0 THEN st.current_year ELSE hint),
               Strip(CutAt(m.rest, HEADER_RE(m.rest))), b)

\* the end of the first run of non-blank characters of s from position b on
WordEnd(s, b) == SkipWhile(s, b, {Ch(s, i) : i \in 1..Len(s)} \ Spaces)

RECURSIVE SplitWs(_, _)
\* the pieces of s.split(None, maxsplit), the first of which starts at position b
SplitFrom(s, b, maxsplit) ==
    IF b > Len(s) THEN << >>
    ELSE IF maxsplit = 0 THEN << From(s, b) >>
    ELSE << Sub(s, b, WordEnd(s, b) - 1) >> \o SplitWs(From(s, WordEnd(s, b)), maxsplit - 1)

\* s.split(None, maxsplit): pieces between runs of white space
SplitWs(s, maxsplit) == SplitFrom(s, SkipWhile(s, 1, Spaces), maxsplit)

\* desc_and_amount from the parts of rest
DescOfParts(parts, rest) ==
    IF Len(parts) >= 3
    THEN (IF Len(parts[2]) > 0 /\ AllDigits(parts[2]) THEN parts[3] ELSE parts[2] \o " " \o parts[3])
    ELSE IF Len(parts) = 2 THEN parts[2]
    ELSE rest

\* the description and amount of an abbreviated-month line: what follows the post
\* date and a purely numeric reference number
DescAndAmount(rest) == DescOfParts(SplitWs(rest, 2), rest)

\* the amount of an abbreviated-month line, mm the money match in desc_and_amount
AbbrevAmount(s2, dt, desc_and_amount, mm, b) ==
    IF mm.start # 0
    THEN CloseTx(NewTx(s2, InlineTx(FormatDate(dt), desc_and_amount, mm, b)))
    ELSE s2

\* the abbreviated-month path once its date dt is known
AbbrevCommit(s1, dt, desc_and_amount, b) ==
    IF ~dt.ok THEN Raise(s1)
    ELSE AbbrevAmount([s1 EXCEPT !.current_year = dt.year], dt, desc_and_amount,
                      MONEY_INLINE(desc_and_amount), b)

\* a line that ABBREV_MONTH_DATE matches (m its groups)
AbbrevLine(st, m, b, hint) ==
    AbbrevCommit(CommitPending(st),
                 parse_abbreviated_month_date(m.month_abbrev, m.day,
                     IF st.current_year # 0 THEN st.current_year ELSE hint),
                 DescAndAmount(Strip(m.rest)), b)

\* mode == "pattern" and current_tx: the line joins the memo
PatternContinuation(st, line) ==
    [st EXCEPT !.heap[st.current_tx].Memo = @ \o " " \o line]

\* a faulty variant of SmAmount that sets the amount but neither appends the
\* transaction nor closes the builder
SmAmountLeftOpen(st, cur, line, pa) ==
    IF pa.has
    THEN SetCurrent(st,
             Tx(cur.Date, IF pa.leftover # "" THEN JoinMemo(cur.Memo, pa.leftover) ELSE cur.Memo,
                pa.amount, TRUE))
    ELSE SetMemo(st, JoinMemo(cur.Memo, line))

\* the end of the sm continuation: pa is what parse_amount_from_line found
SmAmount(st, cur, line, pa) ==
    IF pa.has
    THEN CloseTx(SetCurrent(st,
             Tx(cur.Date, IF pa.leftover # "" THEN JoinMemo(cur.Memo, pa.leftover) ELSE cur.Memo,
                pa.amount, TRUE)))
    ELSE SetMemo(st, JoinMemo(cur.Memo, line))

\* a faulty variant of SmBody without the Wells Fargo branch: a continuation line
\* of a transaction that has its amount is searched for an amount again
SmBodyParsesAmounts(st, cur, line, b) ==
    IF HEADER_RE(line) # 0
    THEN (IF b = "wells" /\ cur.HasAmount /\ TotalsWord(line) THEN CloseTx(st) ELSE st)
    ELSE SmAmount(st, cur, line, parse_amount_from_line(line, cur.Memo, b))

\* the sm continuation with cur the dict current_tx refers to
SmBody(st, cur, line, b) ==
    IF HEADER_RE(line) # 0
    THEN (IF b = "wells" /\ cur.HasAmount /\ TotalsWord(line) THEN CloseTx(st) ELSE st)
    ELSE IF b = "wells" /\ cur.HasAmount
    THEN (IF should_skip_wellsfargo_continuation_line(line) THEN st
          ELSE SetMemo(st, JoinMemo(cur.Memo, line)))
    ELSE SmAmount(st, cur, line, parse_amount_from_line(line, cur.Memo, b))

\* mode == "sm" and current_tx
SmContinuation(st, line, b) == SmBody(st, st.heap[st.current_tx], line, b)

\* the branches of the loop body, tried in turn: pm, dm and am are the matches of
\* pattern, DATE_START and ABBREV_MONTH_DATE on the stripped line
Dispatch(st, line, pm, dm, am, b, hint) ==
    IF line = "" THEN st
    ELSE IF pm.ok THEN PatternLine(st, pm, b, hint)
    ELSE IF dm.ok THEN DateStartLine(st, dm, b, hint)
    ELSE IF am.ok THEN AbbrevLine(st, am, b, hint)
    ELSE IF st.mode = "pattern" /\ st.current_tx # 0 THEN PatternContinuation(st, line)
    ELSE IF st.mode = "sm" /\ st.current_tx # 0 THEN SmContinuation(st, line, b)
    ELSE st

\* the body of the loop of process_statement_lines for one raw line
LoopBody(st, raw_line, b, hint) ==
    Dispatch(st, Strip(raw_line), pattern(Strip(raw_line)), DATE_START(Strip(raw_line)),
             ABBREV_MONTH_DATE(Strip(raw_line)), b, hint)

\* the locals of process_statement_lines before its loop
ScanStart(h, hint) ==
    [heap |-> h, page_rows |-> << >>, current_tx |-> 0, mode |-> "none",
     current_year |-> hint, raised |-> FALSE]

----------------------------------------------------------------------------
(* Brand Detector and Raw-Stream Fallback Extractor                        *)

\* re.sub(r"\s+", " ", s): of every run of blanks the first one stays
CollapseWs(s) == Pick(s, 1, Len(s), {i \in 1..Len(s) : ~IsSpaceAt(s, i) \/ ~IsSpaceAt(s, i - 1)})

\* the tests of detect_brand_from_text on the collapsed, lower-cased text
DetectLower(txt) ==
    IF /\ Contains(txt, "wells fargo")
       /\ \/ Contains(txt, "transaction history")
          \/ Contains(txt, "deposits/ credits")
          \/ Contains(txt, "withdrawals/ debits")
    THEN "wells"
    ELSE IF Contains(txt, "american express") \/ Contains(txt, "membership rewards")
    THEN "amex"
    ELSE "generic"

\* detect_brand_from_text(text)
detect_brand_from_text(text) == DetectLower(Lower(CollapseWs(text)))

\* the lookbehind (?<![Oo]n\s) of txn_pattern fails at position i
OnBefore(s, i) == Ch(s, i - 3) \in {"O", "o"} /\ Ch(s, i - 2) = "n" /\ IsSpaceAt(s, i - 1)

\* (?:0?[1-9]|1[0-2]) read as n characters from position i
TxnMonthFits(s, i, n) ==
    IF n = 1 THEN Ch(s, i) \in (Digits \ {"0"})
    ELSE \/ Ch(s, i) = "0" /\ Ch(s, i + 1) \in (Digits \ {"0"})
         \/ Ch(s, i) = "1" /\ Ch(s, i + 1) \in {"0", "1", "2"}

\* (?:0?[1-9]|[12]\d|3[01]) read as n characters from position i
TxnDayFits(s, i, n) ==
    IF n = 1 THEN Ch(s, i) \in (Digits \ {"0"})
    ELSE \/ Ch(s, i) = "0" /\ Ch(s, i + 1) \in (Digits \ {"0"})
         \/ Ch(s, i) \in {"1", "2"} /\ IsDigitAt(s, i + 1)
         \/ Ch(s, i) = "3" /\ Ch(s, i + 1) \in {"0", "1"}

\* the date of txn_pattern reads x[1] month digits, x[2] day digits and x[3] year
\* digits (0: no year) from position i and is followed by white space
TxnDateFits(s, i, x) ==
    /\ TxnMonthFits(s, i, x[1])
    /\ Ch(s, i + x[1]) = "/"
    /\ TxnDayFits(s, i + x[1] + 1, x[2])
    /\ x[3] # 0 =>
         /\ Ch(s, i + x[1] + 1 + x[2]) = "/"
         /\ \A k \in 1..x[3] : IsDigitAt(s, i + x[1] + 1 + x[2] + k)
    /\ IsSpaceAt(s, i + x[1] + 1 + x[2] + (IF x[3] = 0 THEN 0 ELSE 1 + x[3]))

\* the date of txn_pattern followed by \s+, tried at position i: the position of
\* the last character of the date, 0 when it does not match
TxnDateEnd(s, i) ==
    MinOrZero({i + c[1] + c[2] + (IF c[3] = 0 THEN 0 ELSE 1 + c[3]) :
                 c \in {x \in {1, 2} \X {1, 2} \X {0, 2, 3, 4} : TxnDateFits(s, i, x)}})

\* a match of txn_pattern can start at position i
TxnStart(s, i) == ~OnBefore(s, i) /\ TxnDateEnd(s, i) # 0

\* the least position >= i where a match of txn_pattern can start, Len(s) + 1 when
\* there is none
NextTxnStart(s, i) == Min({j \in i..Len(s) : TxnStart(s, j)} \cup {Len(s) + 1})

RECURSIVE TxnFrom(_, _)
\* the match whose date runs from i to de, followed by the later matches: the lazy
\* body runs from the end of the white space, bs, to the next position where a
\* match can start
TxnBody(s, i, de, bs) ==
    << [date |-> Sub(s, i, de), body |-> Strip(Sub(s, bs, NextTxnStart(s, bs) - 1))] >>
      \o TxnFrom(s, NextTxnStart(s, bs))

\* the matches of txn_pattern from the start i of the first one on
TxnFrom(s, i) ==
    IF i > Len(s) THEN << >>
    ELSE TxnBody(s, i, TxnDateEnd(s, i), SkipWhile(s, TxnDateEnd(s, i) + 1, Spaces))

\* txn_pattern.finditer(s) from position pos: (date, stripped body) of every match
TxnMatches(s, pos) == TxnFrom(s, NextTxnStart(s, pos))

RECURSIVE MergeSegments(_, _)
\* the loop building segments: a match without body is dropped, a match that
\* follows a body ending in " on 0" is joined to it
MergeSegments(segments, matches) ==
    IF matches = << >> THEN segments
    ELSE LET m == Head(matches)
             n == Len(segments)
         IN IF m.body = "" THEN MergeSegments(segments, Tail(matches))
            \* re.match(r"0?\d", date) holds of every date of txn_pattern
            ELSE IF n > 0 /\ EndsWith(segments[n].body, " on 0") /\ IsDigitAt(m.date, 1)
            THEN MergeSegments(
                   [segments EXCEPT ![n].body =
                       UpTo(@, Len(@) - 1) \o m.date \o " " \o m.body],
                   Tail(matches))
            ELSE MergeSegments(Append(segments, m), Tail(matches))

TrailingMarkers == << "totals", "transaction history", "monthly service fee" >>

RECURSIVE CutAtMarkers(_, _)
\* the text cut at the first occurrence of each marker from the k-th on, in turn
CutAtMarkers(text, k) ==
    IF k > Len(TrailingMarkers) THEN text
    ELSE CutAtMarkers(CutBefore(text, Find(Lower(text), TrailingMarkers[k])), k + 1)

\* a faulty variant of KeepLine without the money test
KeepLineNotEmpty(text) == IF text = "" THEN << >> ELSE << text >>

\* if text and MONEY_INLINE.search(text): lines.append(text)
KeepLine(text) == IF text = "" \/ MONEY_INLINE(text).start = 0 THEN << >> ELSE << text >>

RECURSIVE FallbackLines(_)
\* the lines kept of the segments: cut at the markers, dropped without money
FallbackLines(segments) ==
    IF segments = << >> THEN << >>
    ELSE KeepLine(CutAtMarkers(Strip(Head(segments).date \o " " \o Head(segments).body), 1))
           \o FallbackLines(Tail(segments))

\* extract_fallback_lines(pdf_source), from the text of the inflated streams on:
\* joined is "".join(text_parts), "" when no stream gave text or no bytes were
\* read; brand_hint "" stands for None
extract_fallback_lines(joined) ==
    IF joined = "" THEN [lines |-> << >>, brand_hint |-> ""]
    ELSE [lines      |-> FallbackLines(MergeSegments(<< >>,
                                          TxnMatches(Strip(CollapseWs(joined)), 1))),
          brand_hint |-> detect_brand_from_text(Strip(CollapseWs(joined)))]

----------------------------------------------------------------------------
(* Deduplicator                                                            *)

RECURSIVE CleanRows(_, _)
\* the first loop of the post-processing: every row's memo cut at the first
\* noise keyword, in place
CleanRows(h, rws) ==
    IF rws = << >> THEN h
    ELSE CleanRows([h EXCEPT ![Head(rws)].Memo = MemoClean(@)], Tail(rws))

\* key = (r["Date"], round(r["Amount"], 2), r["Memo"])
DedupKey(r) == << r.Date, Round2(r.Amount), r.Memo >>

\* a faulty variant of DedupRows that never looks a key up: every row is kept
DedupRowsKeepAll(h, rws, deduped, seen) == deduped \o rws

RECURSIVE DedupRows(_, _, _, _)
\* the second loop: a row is kept unless its key was seen
DedupRows(h, rws, deduped, seen) ==
    IF rws = << >> THEN deduped
    ELSE LET key == DedupKey(h[Head(rws)])
         IN IF key \in seen THEN DedupRows(h, Tail(rws), deduped, seen)
            ELSE DedupRows(h, Tail(rws), Append(deduped, Head(rws)), seen \cup {key})

\* lines 554-566 of parse_pdf over the dicts h and the references rws:
\* the dicts after the clean-up and the references returned
Deduplicator(h, rws) ==
    [heap |-> CleanRows(h, rws), deduped |-> DedupRows(CleanRows(h, rws), rws, << >>, {})]

----------------------------------------------------------------------------
(* parse_pdf                                                               *)

\* bounds of the model: lines fed to the primary path per document, pages per
\* document
MaxLines == 3

MaxPages == 2

Brands == {"generic", "amex", "wells"}

\* the names of the documents parsed ("" : a source without a name)
FileNames == {"083125 WellsFargo.pdf", "stmt.pdf"}

\* the lines the page text extractor may deliver
Corpus ==
    {"03/05/24 Coffee Shop Purchase 4.50",
     "03/06/24 ACH Deposit From Employer",
     "1,200.00",
     "-$50.00",
     "03/07 Refund credit -5.00",
     "8/1 Recurring Transfer 13.99 1,204.11",
     "FL S305212532878398 Card 6809",
     "Totals $1,234.00 $2,345.00",
     "Aug02 Aug04 33739422 DNH*SUCURI 9.99",
     "Aug03 Pending",
     "02/30/24 Rent 4.50",
     "03/05/0999 Old Rent 4.50",
     "8/2",
     "Account Summary"}

\* what the inflated content streams of the document may hold ("" : no bytes, or
\* no stream that yields text)
StreamTexts ==
    {"",
     "No activity 3/9 pending",
     "02/30 Rent 4.50",
     "Wells Fargo Transaction history 8/1 ATM Cash Deposit 46.00 8/1 ATM Cash Deposit 46.00 Totals $92.00",
     "Statement 3/5/24 Coffee Shop 4.50 8/4 Zelle To Bob on 08/03 Ref 64.00 8/9"}

Scan == [heap |-> heap, page_rows |-> page_rows, current_tx |-> current_tx, mode |-> mode,
         current_year |-> current_year, raised |-> FALSE]

\* the scan variables take the values of the scan state st
SetScan(st) ==
    /\ heap' = st.heap
    /\ page_rows' = st.page_rows
    /\ current_tx' = st.current_tx
    /\ mode' = st.mode
    /\ current_year' = st.current_year

\* the scan variables when no scan runs, over the dicts h
NoScan(h) == SetScan([ScanStart(h, 0) EXCEPT !.current_year = 0])

Step(op, line) == [op |-> op, line |-> line]

\* no helper function is called on its own
NoCall == [fn |-> "none"]

NoRet == [done |-> FALSE, value |-> 0]

Init ==
    /\ pc = "start"
    /\ file_name \in FileNames
    /\ year_hint = infer_year_from_filename(file_name)
    /\ brand = "generic"
    /\ heap = << >>
    /\ rows = << >>
    /\ page_rows = << >>
    /\ current_tx = 0
    /\ mode = "none"
    /\ current_year = 0
    /\ pages_left = 0
    /\ lines_left = MaxLines
    /\ fb_lines = << >>
    /\ fb_runs = 0
    /\ primary_rows = << >>
    /\ result = << >>
    /\ last = Step("init", "")
    /\ call = NoCall
    /\ ret = NoRet

\* pdfplumber.open succeeds: the brand is detected when the document has pages
OpenPdf ==
    /\ UNCHANGED << call, ret >>
    /\ pc = "start"
    /\ \E n \in 0..MaxPages, b \in Brands :
          /\ pages_left' = n
          /\ brand' = IF n > 0 THEN b ELSE brand
    /\ pc' = "pages"
    /\ last' = Step("open", "")
    /\ UNCHANGED << file_name, year_hint, heap, rows, page_rows, current_tx, mode,
                    current_year, lines_left, fb_lines, fb_runs, primary_rows, result >>

\* the extractor raises, opening the document or reading a page: rows = []
ExtractorRaises ==
    /\ UNCHANGED << call, ret >>
    /\ pc \in {"start", "pages"}
    /\ rows' = << >>
    /\ primary_rows' = << >>
    /\ NoScan(<< >>)
    /\ pc' = "fallback"
    /\ last' = Step("extractor_raises", "")
    /\ UNCHANGED << file_name, year_hint, brand, pages_left, lines_left, fb_lines, fb_runs,
                    result >>

\* a page without text is passed over
PageNoText ==
    /\ UNCHANGED << call, ret >>
    /\ pc = "pages"
    /\ pages_left > 0
    /\ pages_left' = pages_left - 1
    /\ last' = Step("no_text", "")
    /\ UNCHANGED << pc, file_name, year_hint, brand, heap, rows, page_rows, current_tx, mode,
                    current_year, lines_left, fb_lines, fb_runs, primary_rows, result >>

\* process_statement_lines starts on the text of the next page
StartPage ==
    /\ UNCHANGED << call, ret >>
    /\ pc = "pages"
    /\ pages_left > 0
    /\ SetScan(ScanStart(heap, year_hint))
    /\ pc' = "scan"
    /\ last' = Step("start_page", "")
    /\ UNCHANGED << file_name, year_hint, brand, rows, pages_left, lines_left, fb_lines,
                    fb_runs, primary_rows, result >>

\* the loop body has run on line and left the scan state st; a ValueError leaves
\* process_statement_lines and is caught by parse_pdf: rows = []
PageLineDone(st, line) ==
    /\ last' = Step(IF st.raised THEN "line_raised" ELSE "line", line)
    /\ IF st.raised
       THEN /\ NoScan(<< >>)
            /\ rows' = << >>
            /\ pc' = "fallback"
       ELSE /\ SetScan(st)
            /\ UNCHANGED << rows, pc >>

\* one line of the page goes through the loop
ProcessLine ==
    /\ UNCHANGED << call, ret >>
    /\ pc = "scan"
    /\ lines_left > 0
    /\ \E line \in Corpus : PageLineDone(LoopBody(Scan, line, brand, year_hint), line)
    /\ lines_left' = lines_left - 1
    /\ UNCHANGED << file_name, year_hint, brand, pages_left, fb_lines, fb_runs,
                    primary_rows, result >>

\* the page has no more lines: the pending builder is committed or dropped, and
\* rows.extend(page_rows)
EndPage ==
    /\ UNCHANGED << call, ret >>
    /\ pc = "scan"
    /\ rows' = rows \o CommitPending(Scan).page_rows
    /\ NoScan(heap)
    /\ pages_left' = pages_left - 1
    /\ pc' = "pages"
    /\ last' = Step("end_page", "")
    /\ UNCHANGED << file_name, year_hint, brand, lines_left, fb_lines, fb_runs,
                    primary_rows, result >>

\* the document has no more pages
EndPrimary ==
    /\ UNCHANGED << call, ret >>
    /\ pc = "pages"
    /\ pages_left = 0
    /\ primary_rows' = rows
    /\ pc' = "fallback"
    /\ last' = Step("end_primary", "")
    /\ UNCHANGED << file_name, year_hint, brand, heap, rows, page_rows, current_tx, mode,
                    current_year, pages_left, lines_left, fb_lines, fb_runs, result >>

\* if not rows: false, the raw-stream fallback is passed over
SkipFallback ==
    /\ UNCHANGED << call, ret >>
    /\ pc = "fallback"
    /\ rows # << >>
    /\ pc' = "dedup"
    /\ last' = Step("skip_fallback", "")
    /\ UNCHANGED << file_name, year_hint, brand, heap, rows, page_rows, current_tx, mode,
                    current_year, pages_left, lines_left, fb_lines, fb_runs, primary_rows,
                    result >>

\* extract_fallback_lines has returned fb: process_statement_lines starts on its
\* lines when there are any
FallbackExtracted(fb) ==
    /\ fb_lines' = fb.lines
    /\ IF fb.lines # << >>
       THEN /\ brand' = IF fb.brand_hint # "" THEN fb.brand_hint ELSE brand
            /\ SetScan(ScanStart(<< >>, year_hint))
            /\ pc' = "fbscan"
       ELSE /\ NoScan(<< >>)
            /\ UNCHANGED brand
            /\ pc' = "dedup"

\* a faulty variant of RunFallback without the test of rows: the fallback runs
\* whatever the primary path gave, and its rows replace those of the primary path
RunFallbackAlways ==
    /\ UNCHANGED << call, ret >>
    /\ pc = "fallback"
    /\ fb_runs' = fb_runs + 1
    /\ \E joined \in StreamTexts : FallbackExtracted(extract_fallback_lines(joined))
    /\ last' = Step("run_fallback", "")
    /\ UNCHANGED << file_name, year_hint, rows, pages_left, lines_left, primary_rows, result >>

\* if not rows: extract_fallback_lines is called
RunFallback ==
    /\ UNCHANGED << call, ret >>
    /\ pc = "fallback"
    /\ rows = << >>
    /\ fb_runs' = fb_runs + 1
    /\ \E joined \in StreamTexts : FallbackExtracted(extract_fallback_lines(joined))
    /\ last' = Step("run_fallback", "")
    /\ UNCHANGED << file_name, year_hint, rows, pages_left, lines_left, primary_rows, result >>

\* the loop body has run on a fallback line and left the scan state st; a
\* ValueError leaves parse_pdf
FallbackLineDone(st, line) ==
    /\ last' = Step(IF st.raised THEN "line_raised" ELSE "line", line)
    /\ IF st.raised
       THEN /\ NoScan(<< >>)
            /\ pc' = "raised"
       ELSE /\ SetScan(st)
            /\ UNCHANGED pc

\* one fallback line goes through the loop
ProcessFallbackLine ==
    /\ UNCHANGED << call, ret >>
    /\ pc = "fbscan"
    /\ fb_lines # << >>
    /\ FallbackLineDone(LoopBody(Scan, Head(fb_lines), brand, year_hint), Head(fb_lines))
    /\ fb_lines' = Tail(fb_lines)
    /\ UNCHANGED << file_name, year_hint, brand, rows, pages_left, lines_left, fb_runs,
                    primary_rows, result >>

\* the fallback lines are used up: rows = process_statement_lines(...)
EndFallback ==
    /\ UNCHANGED << call, ret >>
    /\ pc = "fbscan"
    /\ fb_lines = << >>
    /\ rows' = CommitPending(Scan).page_rows
    /\ NoScan(heap)
    /\ pc' = "dedup"
    /\ last' = Step("end_fallback", "")
    /\ UNCHANGED << file_name, year_hint, brand, pages_left, lines_left, fb_lines, fb_runs,
                    primary_rows, result >>

\* the memo clean-up and the removal of duplicates; parse_pdf returns
Finalize ==
    /\ UNCHANGED << call, ret >>
    /\ pc = "dedup"
    /\ heap' = Deduplicator(heap, rows).heap
    /\ result' = Deduplicator(heap, rows).deduped
    /\ pc' = "done"
    /\ last' = Step("finalize", "")
    /\ UNCHANGED << file_name, year_hint, brand, rows, page_rows, current_tx, mode,
                    current_year, pages_left, lines_left, fb_lines, fb_runs, primary_rows >>

Next ==
    \/ OpenPdf
    \/ ExtractorRaises
    \/ PageNoText
    \/ StartPage
    \/ ProcessLine
    \/ EndPage
    \/ EndPrimary
    \/ SkipFallback
    \/ RunFallback
    \/ ProcessFallbackLine
    \/ EndFallback
    \/ Finalize

Spec == Init /\ [][Next]_vars

----------------------------------------------------------------------------
(* Helper functions called on their own: the arguments are drawn in the    *)
(* initial state, the one action applies the function.                     *)

\* parse_pdf is not running
Idle ==
    /\ pc = "idle"
    /\ file_name = ""
    /\ year_hint = 0
    /\ brand = "generic"
    /\ heap = << >>
    /\ rows = << >>
    /\ page_rows = << >>
    /\ current_tx = 0
    /\ mode = "none"
    /\ current_year = 0
    /\ pages_left = 0
    /\ lines_left = 0
    /\ fb_lines = << >>
    /\ fb_runs = 0
    /\ primary_rows = << >>
    /\ result = << >>
    /\ last = Step("init", "")

\* the descriptions guess_sign is called with
SignDescs ==
    {"", "Zelle To John", "Zelle From Bob", "Refund credit", "ACH Deposit From Employer",
     "Coffee Shop", "Payment refund", "Check deposit", "CREDIT MEMO", "Recurring Transfer",
     "Purchase authorized on 08/01", "ATM Cash Deposit", "ATM Withdrawal", "Card credit",
     "LE - USA TECHNOL", "B2P fee", "ACH Debit", "eDeposit in branch"}

InitSign ==
    /\ Idle
    /\ call \in {[fn |-> "guess_sign", desc |-> d, amount_has_minus |-> m, brand |-> b] :
                   d \in SignDescs, m \in BOOLEAN, b \in Brands}
    /\ ret = NoRet

CallGuessSign ==
    /\ call.fn = "guess_sign"
    /\ ~ret.done
    /\ ret' = [done |-> TRUE,
               value |-> guess_sign(call.desc, call.amount_has_minus, call.brand)]
    /\ UNCHANGED << parse_vars, call >>

SpecSign == InitSign /\ [][CallGuessSign]_vars

\* the file names infer_year_from_filename is called with: a statement date
\* MMDDYY before the bank's name, a year of four digits, no digits at all
YearNames ==
    {m \o d \o y \o " WellsFargo.pdf" :
        m \in {"01", "08", "12"}, d \in {"03", "20", "31"},
        y \in {"19", "20", "24", "25", "26", "32"}}
      \cup {"statement_2024.pdf", "2023-04 stmt.pdf", "stmt.pdf"}

InitYear ==
    /\ Idle
    /\ call \in {[fn |-> "infer_year_from_filename", name |-> n] : n \in YearNames}
    /\ ret = NoRet

CallInferYear ==
    /\ call.fn = "infer_year_from_filename"
    /\ ~ret.done
    /\ ret' = [done |-> TRUE, value |-> infer_year_from_filename(call.name)]
    /\ UNCHANGED << parse_vars, call >>

SpecYear == InitYear /\ [][CallInferYear]_vars

\* the texts of the inflated streams extract_fallback_lines is called with: three
\* pieces in a row, among them transactions, a piece without money, trailing
\* markers in several letter cases, a date after "on " and a body ending in " on 0"
FallbackTexts ==
    LET pieces == {"8/1 ATM Cash Deposit 46.00",
                   "Totals $92.00",
                   "Wells Fargo TRANSACTION  History",
                   "3/5/24 Coffee Shop 4.50 Monthly Service Fee Summary",
                   "8/4 Zelle To Bob on 08/03 Ref 64.00",
                   "8/9 pending",
                   "12/31/2024 Zelle 5.00 on 0"}
    IN {a \o " " \o b \o " " \o c : a \in pieces, b \in pieces, c \in pieces}

InitFallback ==
    /\ Idle
    /\ call \in {[fn |-> "extract_fallback_lines", joined |-> t] : t \in FallbackTexts}
    /\ ret = NoRet

CallExtractFallback ==
    /\ call.fn = "extract_fallback_lines"
    /\ ~ret.done
    /\ ret' = [done |-> TRUE, value |-> extract_fallback_lines(call.joined)]
    /\ UNCHANGED << parse_vars, call >>

SpecFallback == InitFallback /\ [][CallExtractFallback]_vars

----------------------------------------------------------------------------
(* Properties                                                              *)

Range(seq) == {seq[i] : i \in 1..Len(seq)}

\* C1: no record whose amount is unresolved is ever in the output of
\* process_statement_lines, in the rows parse_pdf collects or in what it returns:
\* a builder that never receives an amount is discarded, by the next date-bearing
\* line as at the end of the page
C1_NoIncompleteCommits ==
    \A r \in Range(page_rows) \cup Range(rows) \cup Range(result) : heap[r].HasAmount

\* a page has ended with records emitted and a builder without amount discarded
C1_BuilderDiscarded ==
    /\ last.op = "end_page"
    /\ rows # << >>
    /\ \E i \in 1..Len(heap) : ~heap[i].HasAmount /\ i \notin Range(rows)

\* C2: the record a single-line pattern line creates carries the sign guess_sign
\* returns for its description, the explicit minus of its amount and the brand
\* (so "03/05/24 Coffee Shop Purchase 4.50" under generic gives -4.50)
C2_PatternSignFromResolver ==
    (pc \in {"scan", "fbscan"} /\ last.op = "line" /\ pattern(Strip(last.line)).ok) =>
        heap[current_tx].Amount =
            Abs(heap[current_tx].Amount)
              * guess_sign(heap[current_tx].Memo,
                           Contains(pattern(Strip(last.line)).amt_str, "-"), brand)

\* the rules of C3 for the description desc, the flag minus and the brand b
SignRule(desc, minus, b) ==
    LET d       == Lower(desc)
        credit  == Contains(d, "credit") \/ Contains(d, "refund")
        neg     == \E k \in NEGATIVE_HINTS : Contains(d, k)
        pos     == \E k \in POSITIVE_HINTS : Contains(d, k)
    IN CASE b = "amex" /\ minus /\ credit -> 1
         [] ~(b = "amex" /\ minus /\ credit) /\ minus -> -1
         [] ~minus /\ neg -> -1
         [] ~minus /\ ~neg /\ pos -> 1
         [] ~minus /\ ~neg /\ ~pos /\ b = "wells" -> 1
         [] ~minus /\ ~neg /\ ~pos /\ b # "wells" -> -1

\* C3: guess_sign returns +1 or -1, by this precedence: amex with an explicit minus
\* and a credit/refund keyword gives +1; otherwise an explicit minus gives -1;
\* otherwise a negative keyword gives -1, also beside a positive one; otherwise a
\* positive keyword gives +1; otherwise +1 for wells and -1 for any other brand
C3_SignPrecedence ==
    (call.fn = "guess_sign" /\ ret.done) =>
        /\ ret.value \in {1, -1}
        /\ ret.value = SignRule(call.desc, call.amount_has_minus, call.brand)

\* guess_sign was called for "-$50.00" with "Zelle To John" under generic
C3_ExplicitMinusWins ==
    /\ call.fn = "guess_sign" /\ ret.done
    /\ call.desc = "Zelle To John" /\ call.amount_has_minus /\ call.brand = "generic"
    /\ ret.value = -1

\* C4: a line whose date token fails calendar validation is skipped:
\* process_statement_lines goes on and the records of the other lines and pages
\* are kept
C4_InvalidDateLineSkipped ==
    [][last'.op = "line_raised" =>
         (pc' = pc /\ rows' = rows /\ page_rows' = page_rows /\ current_tx' = current_tx)]_vars

\* C5: parse_pdf never raises, whatever the document holds
C5_ParseNeverRaises == pc # "raised"

\* C6: the raw-stream fallback runs at most once and only when the primary path
\* ended with zero records; when the primary path gave records, parse_pdf returns
\* exactly those, deduplicated
C6_FallbackOnlyWhenEmpty ==
    /\ [](fb_runs <= 1 /\ (fb_runs = 1 => primary_rows = << >>))
    /\ [][(pc = "dedup" /\ pc' = "done" /\ primary_rows # << >>) =>
            /\ fb_runs = 0
            /\ result' = Deduplicator(heap, primary_rows).deduped
            /\ heap' = Deduplicator(heap, primary_rows).heap]_vars

\* parse_pdf has returned the records of the primary path
C6_PrimaryReturned == pc = "done" /\ primary_rows # << >> /\ fb_runs = 0 /\ result # << >>

\* C7: the Deduplicator applied to its own output gives the same records, with the
\* same memos, in the same order
C7_DedupIdempotent ==
    pc = "done" => Deduplicator(heap, result) = [heap |-> heap, deduped |-> result]

\* parse_pdf has returned after the Deduplicator dropped a duplicate
C7_DuplicateDropped == pc = "done" /\ result # << >> /\ Len(result) < Len(rows)

RECURSIVE FirstOccurrences(_, _, _)
\* the rows from the i-th on whose key no earlier row has
FirstOccurrences(h, rws, i) ==
    IF i > Len(rws) THEN << >>
    ELSE (IF \E j \in 1..(i - 1) : DedupKey(h[rws[j]]) = DedupKey(h[rws[i]])
          THEN << >> ELSE << rws[i] >>)
           \o FirstOccurrences(h, rws, i + 1)

\* C8: what parse_pdf returns holds no two records with the same key (date,
\* rounded amount, cleaned memo) and is the rows in the order they were emitted,
\* each key at its first occurrence, every later occurrence dropped
C8_FirstOccurrencesKept ==
    pc = "done" =>
        /\ \A i, j \in 1..Len(result) :
              i # j => DedupKey(heap[result[i]]) # DedupKey(heap[result[j]])
        /\ result = FirstOccurrences(heap, rows, 1)

\* parse_pdf has returned two records with different keys after a duplicate of
\* one of them was dropped
C8_DuplicateAmongOthers == pc = "done" /\ Len(result) >= 2 /\ Len(rows) > Len(result)

\* the magnitude, in cents, of an amount-only line
LineMagnitude(line) == DigitsValue(KeepChars(line, Digits), 0)

\* C9: when a date line without amount has opened a builder and the next line is
\* an amount-only line, exactly one record is emitted: the date and the memo are
\* those of the date line, the amount is the magnitude of the amount line with the
\* sign resolved from the memo and the brand; the builder is closed, the mode None
C9_AmountOnlyCloses ==
    [][(/\ pc = "scan" /\ last.op = "line" /\ DATE_START(Strip(last.line)).ok
        /\ mode = "sm" /\ current_tx # 0 /\ ~heap[current_tx].HasAmount
        /\ last'.op = "line" /\ AMOUNT_ONLY(Strip(last'.line)))
       => (/\ page_rows' = Append(page_rows, current_tx)
           /\ Len(heap') = Len(heap)
           /\ heap'[current_tx] =
                Tx(heap[current_tx].Date, heap[current_tx].Memo,
                   LineMagnitude(last'.line) * guess_sign(heap[current_tx].Memo, FALSE, brand),
                   TRUE)
           /\ current_tx' = 0
           /\ mode' = "none")]_vars

\* "03/06/24 ACH Deposit From Employer" then "1,200.00" have given one record
C9_DepositScenario ==
    /\ pc = "scan" /\ last = Step("line", "1,200.00")
    /\ Len(page_rows) = 1
    /\ heap[page_rows[1]] = Tx("3/6/2024", "ACH Deposit From Employer", 120000, TRUE)
    /\ current_tx = 0 /\ mode = "none"

\* the name starts with a statement date MMDDYY
StartsWithMMDDYY(name) ==
    /\ AllDigits(UpTo(name, 6)) /\ Len(name) >= 6 /\ ~IsDigitAt(name, 7)
    /\ DigitsValue(Sub(name, 1, 2), 0) \in 1..12
    /\ DigitsValue(Sub(name, 3, 4), 0) \in 1..31

\* C10: for a file name with a token MMDDYY and no year of four digits,
\* infer_year_from_filename returns 2000 + yy, yy the last two digits of the token
C10_YearFromMMDDYY ==
    (call.fn = "infer_year_from_filename" /\ ret.done /\ StartsWithMMDDYY(call.name)) =>
        ret.value = 2000 + DigitsValue(Sub(call.name, 5, 6), 0)

\* infer_year_from_filename was called for "083125 WellsFargo.pdf" and gave 2025
C10_August2025 ==
    /\ call = [fn |-> "infer_year_from_filename", name |-> "083125 WellsFargo.pdf"]
    /\ ret = [done |-> TRUE, value |-> 2025]

\* the text is a calendar date month/day/year with a year of four digits
ConcreteDate(text) ==
    LET f == Split(text, "/")
    IN /\ Len(f) = 3
       /\ \A i \in 1..3 : Len(f[i]) > 0 /\ AllDigits(f[i])
       /\ Len(f[3]) = 4
       /\ MakeDate(DigitsValue(f[3], 0), DigitsValue(f[1], 0), DigitsValue(f[2], 0)).ok

\* C11: the date of every emitted record is a valid calendar date written
\* month/day/year with a year of four digits, whatever the shape of the date token
\* (MM/DD, MM/DD/YY, MM/DD/YYYY, abbreviated month) and whatever the year hint
C11_DatesConcrete ==
    \A r \in Range(page_rows) \cup Range(rows) \cup Range(result) : ConcreteDate(heap[r].Date)

\* a line with only MM/DD has given a record dated in the year of the file name
C11_ShortDateResolved ==
    /\ pc = "scan" /\ last = Step("line", "03/07 Refund credit -5.00")
    /\ year_hint = 2025
    /\ heap[current_tx].Date = "3/7/2025"

\* C12: the memo of every record process_statement_lines has returned, and of
\* every record parse_pdf returns after its memo clean-up, is non-empty and has no
\* leading or trailing white space
C12_MemoTrimmedNonEmpty ==
    \A r \in Range(rows) \cup (IF pc = "done" THEN Range(result) ELSE {}) :
        heap[r].Memo # "" /\ Strip(heap[r].Memo) = heap[r].Memo

\* C13: once the state machine has appended a record to its output, no later
\* line changes the record's date, amount or memo, also when an abbreviated-month
\* line without amount follows an open record
C13_AppendedImmutable ==
    [][(pc \in {"scan", "fbscan"} /\ last'.op = "line") =>
          \A r \in Range(page_rows) : heap'[r] = heap[r]]_vars

\* the stripped line matches none of pattern, DATE_START and ABBREV_MONTH_DATE
NotDateBearing(line) ==
    /\ line # ""
    /\ ~pattern(line).ok /\ ~DATE_START(line).ok /\ ~ABBREV_MONTH_DATE(line).ok

C15_HeaderLineDropped ==
    [][\A l \in {Strip(last'.line)} :
         (/\ pc \in {"scan", "fbscan"} /\ last'.op = "line" /\ mode # "sm"
          /\ NotDateBearing(l) /\ HEADER_RE(l) # 0)
         => (heap' = heap /\ page_rows' = page_rows)]_vars

\* the year written in the date text of a record
YearOfDate(text) == DigitsValue(Split(text, "/")[3], 0)

\* the stripped line l bears a date without year: MM/DD on the pattern path or on
\* the date-start path, or an abbreviated month
YearlessDate(l) ==
    \/ pattern(l).ok /\ pattern(l).date_full = ""
    \/ ~pattern(l).ok /\ DATE_START(l).ok /\ Len(Split(DATE_START(l).date_raw, "/")) = 2
    \/ ~pattern(l).ok /\ ~DATE_START(l).ok /\ ABBREV_MONTH_DATE(l).ok

\* at the start of each page the rolling year is the hint of the file name
C16_PageStartsAtHint == [][last'.op = "start_page" => current_year' = year_hint]_vars

\* a date without year takes the rolling year (the year of today when there is
\* neither an earlier year on the page nor a hint) and leaves it as it is
C16_YearlessTakesRolling ==
    [][\A l \in {Strip(last'.line)}, y \in {IF current_year # 0 THEN current_year ELSE TodayYear} :
         (pc = "scan" /\ last'.op = "line" /\ YearlessDate(l))
         => (/\ current_year' = y
             /\ Len(heap') > Len(heap) => YearOfDate(heap'[Len(heap')].Date) = y)]_vars

\* C16: within a page scan a date without year resolves to the year of the most
\* recent date of the page that carried a year of 2 or 4 digits, or to the hint of
\* the file name when there is none, on the pattern path, the date-start path and
\* the abbreviated-month path alike; each page starts again from the hint
C16_RollingYear == C16_PageStartsAtHint /\ C16_YearlessTakesRolling

\* under the hint 2025, "8/1 ..." after "03/05/24 ..." on the same page is dated 2024
C16_YearOfEarlierLine ==
    /\ pc = "scan" /\ year_hint = 2025 /\ brand = "generic"
    /\ last = Step("line", "8/1 Recurring Transfer 13.99 1,204.11")
    /\ Len(heap) = 2
    /\ heap[1].Date = "3/5/2024" /\ heap[2].Date = "8/1/2024"
    /\ page_rows = << 1, 2 >>

\* C17: every line extract_fallback_lines returns begins with a date token, holds
\* a money token and holds none of the markers "totals", "transaction history",
\* "monthly service fee", in any letter case; a chunk without money token is not
\* returned
C17_FallbackLinesWellFormed ==
    (call.fn = "extract_fallback_lines" /\ ret.done) =>
        \A line \in Range(ret.value.lines) :
            /\ TxnDateEnd(line, 1) # 0
            /\ MONEY_INLINE(line).start # 0
            /\ \A k \in 1..Len(TrailingMarkers) : ~Contains(Lower(line), TrailingMarkers[k])

\* of three chunks the one without money was dropped and the last one was cut at
\* its marker: two lines are returned
C17_DroppedAndCut ==
    /\ call = [fn |-> "extract_fallback_lines",
               joined |-> "8/9 pending 8/1 ATM Cash Deposit 46.00 3/5/24 Coffee Shop 4.50 Monthly Service Fee Summary"]
    /\ ret.done
    /\ ret.value.lines = << "8/1 ATM Cash Deposit 46.00", "3/5/24 Coffee Shop 4.50" >>

\* C18: process_statement_lines appends each transaction builder to its output at
\* most once: no dict is twice in the output of a page scan, nor in the rows
\* parse_pdf collects, whatever lines are read
C18_AppendedOnce ==
    /\ \A i, j \in 1..Len(page_rows) : i # j => page_rows[i] # page_rows[j]
    /\ \A i, j \in 1..Len(rows) : i # j => rows[i] # rows[j]

====
